---- MODULE Spec2Model ----
(***************************************************************************)
(* Block-acceptance gate of the hierarchical chain: the location           *)
(* coordinate algebra and address-to-shard binding (common/types.go), the  *)
(* block body / post-execution validators and the gas limit adjustment     *)
(* (core/block_validator.go).                                              *)
(*                                                                         *)
(* Every operation is modelled as one action that draws the operation's    *)
(* inputs, runs the whole function and records inputs and result in the    *)
(* call record (op, args, ret).  The operations are pure functions or      *)
(* stateless services: nothing is carried from one call to the next, so a  *)
(* behaviour is the initial state followed by one call (op = "init" guards *)
(* each call).  NodeLocation is the process-wide self location: chosen     *)
(* once in Init and never written afterwards.  calls is the sequence of    *)
(* calls the operation made to its collaborators (the availability oracle, *)
(* the engine, the state store, the history) and of range probes, in the   *)
(* order made; each is a tuple whose first item names the function called. *)
(***************************************************************************)
EXTENDS Integers, Sequences, FiniteSets, TLC

VARIABLES NodeLocation, op, args, ret, calls

vars == <<NodeLocation, op, args, ret, calls>>

(***************************************************************************)
(* Program constants (common/types.go).                                    *)
(***************************************************************************)
AddressLength == 20
PRIME_CTX == 0
REGION_CTX == 1
ZONE_CTX == 2
NumRegionsInPrime == 3
NumZonesInRegion == 3
HierarchyDepth == 3

Byte == 0..255

\* Bounds of the model.
\* Most receipts of a block.
MaxReceipts == 2
\* Longest sub-manifest list of a block.
MaxManifest == 2
\* Blocks a gas limit chain is followed for.
MaxBlocks == 40

(***************************************************************************)
(* Location: a path of 0..2 byte coordinates.                              *)
(***************************************************************************)

\* func (loc Location) Region() int
Region(loc) == IF Len(loc) >= 1 THEN loc[REGION_CTX] ELSE -1

\* func (loc Location) HasRegion() bool
HasRegion(loc) == Region(loc) >= 0

\* func (loc Location) Zone() int
Zone(loc) == IF Len(loc) >= 2 THEN loc[ZONE_CTX] ELSE -1

\* func (loc Location) HasZone() bool
HasZone(loc) == Zone(loc) >= 0

\* func (loc Location) AssertValid(): TRUE when none of the three log.Fatal
\* branches is taken.
AssertValid(loc) ==
    /\ ~(~HasRegion(loc) /\ HasZone(loc))
    /\ ~(Region(loc) >= NumRegionsInPrime)
    /\ ~(Zone(loc) >= NumZonesInRegion)

\* The locations a configuration can hold: at most HierarchyDepth-1
\* coordinates, AssertValid passing.  13 locations: prime, 3 regions, 9 zones.
ValidLocations ==
    { loc \in UNION { [1..n -> 0..(NumRegionsInPrime - 1)] : n \in 0..(HierarchyDepth - 1) } :
        AssertValid(loc) }

\* func (loc Location) Context() int  (for a location that passes AssertValid)
Context(loc) ==
    IF Zone(loc) >= 0 THEN ZONE_CTX
    ELSE IF Region(loc) >= 0 THEN REGION_CTX
    ELSE PRIME_CTX

\* func (loc Location) Equal(cmp Location) bool  (bytes.Equal)
Equal(loc, cmp) ==
    /\ Len(loc) = Len(cmp)
    /\ \A i \in 1..Len(loc) : loc[i] = cmp[i]

\* func (loc Location) Name() string
Name(loc) ==
    LET regionName == CASE Region(loc) = 0 -> "cyprus"
                        [] Region(loc) = 1 -> "paxos"
                        [] Region(loc) = 2 -> "hydra"
                        [] OTHER -> "unknownregion"
        zoneNum == ToString(Zone(loc) + 1)
    IN  CASE Context(loc) = PRIME_CTX -> "prime"
          [] Context(loc) = REGION_CTX -> regionName
          [] Context(loc) = ZONE_CTX -> regionName \o zoneNum
          [] OTHER -> "invalid-location"

\* func (loc Location) SubInSlice(slice Location) Location
\* The nil Location returned on the early exit is the zero-length slice.
SubInSlice(loc, slice) ==
    IF Len(slice) <= Len(loc) THEN << >>
    ELSE Append(loc, slice[Len(loc) + 1])

\* A bug InSameSliceAs could have: no swap, loc is always taken as the shorter
\* one (a longer loc is then never in the slice of cmp).
InSameSliceAsNoSwap(loc, cmp) ==
    /\ Len(loc) <= Len(cmp)
    /\ Equal(loc, SubSeq(cmp, 1, Len(loc)))

\* func (loc Location) InSameSliceAs(cmp Location) bool
InSameSliceAs(loc, cmp) ==
    LET swap == Len(loc) > Len(cmp)
        shorter == IF swap THEN cmp ELSE loc
        longer == IF swap THEN loc ELSE cmp
    IN  Equal(shorter, SubSeq(longer, 1, Len(shorter)))

\* The loop of CommonDom from index i (1-based) on, common being the
\* coordinates appended so far: append while the coordinates agree, break at
\* the first that differ.
RECURSIVE CommonDomLoop(_, _, _, _, _)
CommonDomLoop(loc, cmp, i, shorterLen, common) ==
    IF i > shorterLen THEN common
    ELSE IF loc[i] = cmp[i]
         THEN CommonDomLoop(loc, cmp, i + 1, shorterLen, Append(common, loc[i]))
         ELSE common

\* func (loc Location) CommonDom(cmp Location) Location
CommonDom(loc, cmp) ==
    LET shorterLen == IF Len(loc) > Len(cmp) THEN Len(cmp) ELSE Len(loc)
    IN  CommonDomLoop(loc, cmp, 1, shorterLen, << >>)

(***************************************************************************)
(* Address-to-shard binding.                                               *)
(***************************************************************************)

\* func NewRange(l, h uint8) addrPrefixRange
NewRange(l, h) == [lo |-> l, hi |-> h]

\* func init(): the table locationToPrefixRange, keyed by Location.Name().
locationToPrefixRange ==
    [n \in {"prime", "cyprus", "cyprus1", "cyprus2", "cyprus3",
            "paxos", "paxos1", "paxos2", "paxos3",
            "hydra", "hydra1", "hydra2", "hydra3"} |->
        CASE n = "prime"   -> NewRange(0, 9)
          [] n = "cyprus"  -> NewRange(10, 19)
          [] n = "cyprus1" -> NewRange(20, 29)
          [] n = "cyprus2" -> NewRange(30, 39)
          [] n = "cyprus3" -> NewRange(40, 49)
          [] n = "paxos"   -> NewRange(50, 59)
          [] n = "paxos1"  -> NewRange(60, 69)
          [] n = "paxos2"  -> NewRange(70, 79)
          [] n = "paxos3"  -> NewRange(80, 89)
          [] n = "hydra"   -> NewRange(90, 99)
          [] n = "hydra1"  -> NewRange(100, 109)
          [] n = "hydra2"  -> NewRange(110, 119)
          [] n = "hydra3"  -> NewRange(120, 129)]

\* An Address is AddressLength bytes; a[1] is the Go a[0].
ZeroAddr == [i \in 1..AddressLength |-> 0]

\* The addresses the model draws: every first byte, with an all-zero tail or
\* with a non-zero last byte (the tail never reaches the lookup).
MakeAddress(first, last) ==
    [i \in 1..AddressLength |-> IF i = 1 THEN first
                                ELSE IF i = AddressLength THEN last ELSE 0]

Addresses == { MakeAddress(b, t) : b \in Byte, t \in {0, 1} }

\* A bug a ContainsAddress could have: the upper bound taken as exclusive.
ContainsAddressHiExclusive(l, a) ==
    LET prefix == a[1]
        prefixRange == locationToPrefixRange[Name(l)]
    IN  prefix >= prefixRange.lo /\ prefix < prefixRange.hi

\* func (l Location) ContainsAddress(a Address) bool
\* log.Fatal when Name(l) has no registered range: every valid location has
\* one, so the lookup below is total on ValidLocations.
ContainsAddress(l, a) ==
    LET prefix == a[1]
        prefixRange == locationToPrefixRange[Name(l)]
    IN  prefix >= prefixRange.lo /\ prefix <= prefixRange.hi

\* *Location results: nil, or a pointer to a location.
NilLocation == [isNil |-> TRUE]
PtrTo(l) == [isNil |-> FALSE, loc |-> l]

\* A bug the search order could have: primeChecked is never set, so the prime
\* location is probed again on every region pass.
RECURSIVE ProbeOrderFromPrimeEveryPass(_, _, _)
ProbeOrderFromPrimeEveryPass(r, R, Z) ==
    IF r >= NumRegionsInPrime THEN << >>
    ELSE LET D == HierarchyDepth
             zones == [z \in 1..NumZonesInRegion |->
                          << (r + R) % D, ((z - 1) + Z) % D >>]
             region == << << (r + R) % D >> >>
             prime == << << >> >>
         IN  zones \o region \o prime \o ProbeOrderFromPrimeEveryPass(r + 1, R, Z)

\* The order in which func (a Address) Location() probes candidate locations
\* for a node at self: per region pass r the three zones, the region, and on
\* the first pass only (primeChecked) the prime location.
RECURSIVE ProbeOrderFrom(_, _, _)
ProbeOrderFrom(r, R, Z) ==
    IF r >= NumRegionsInPrime THEN << >>
    ELSE LET D == HierarchyDepth
             zones == [z \in 1..NumZonesInRegion |->
                          << (r + R) % D, ((z - 1) + Z) % D >>]
             region == << << (r + R) % D >> >>
             prime == IF r = 0 THEN << << >> >> ELSE << >>
         IN  zones \o region \o prime \o ProbeOrderFrom(r + 1, R, Z)

ProbeOrder(self) ==
    LET R == IF HasRegion(self) THEN Region(self) ELSE 0
        Z == IF HasZone(self) THEN Zone(self) ELSE 0
    IN  ProbeOrderFrom(0, R, Z)

\* A bug Location() could have: the out-of-slice regions are never searched.
AddressLocationOwnSliceOnly(a, self) ==
    LET probes == SubSeq(ProbeOrder(self), 1, NumZonesInRegion + 2)
        hits == { i \in 1..Len(probes) : ContainsAddress(probes[i], a) }
    IN  IF hits = {} THEN NilLocation
        ELSE PtrTo(probes[CHOOSE i \in hits : \A j \in hits : i <= j])

\* func (a Address) Location() *Location, read with NodeLocation = self:
\* the first probed location that contains the address, nil when none does.
AddressLocation(a, self) ==
    LET probes == ProbeOrder(self)
        hits == { i \in 1..Len(probes) : ContainsAddress(probes[i], a) }
    IN  IF hits = {} THEN NilLocation
        ELSE PtrTo(probes[CHOOSE i \in hits : \A j \in hits : i <= j])

\* The ContainsAddress calls Location() makes for a node at self: the probes
\* in order up to the first that contains the address (the return inside the
\* loop), every probe when none does.
AddressLocationCalls(a, self) ==
    LET probes == ProbeOrder(self)
        hits == { i \in 1..Len(probes) : ContainsAddress(probes[i], a) }
        last == IF hits = {} THEN Len(probes)
                ELSE CHOOSE i \in hits : \A j \in hits : i <= j
    IN  [i \in 1..last |-> <<"ContainsAddress", probes[i]>>]

(***************************************************************************)
(* The location / address operations as actions.                           *)
(***************************************************************************)

InitLoc ==
    /\ NodeLocation \in ValidLocations
    /\ op = "init"
    /\ args = << >>
    /\ ret = << >>
    /\ calls = << >>

\* a.Location() for some address a
CallAddressLocation ==
    /\ op = "init"
    /\ \E a \in Addresses :
        /\ op' = "Location"
        /\ args' = [addr |-> a]
        /\ ret' = AddressLocation(a, NodeLocation)
        /\ calls' = AddressLocationCalls(a, NodeLocation)
    /\ UNCHANGED NodeLocation

\* loc.SubInSlice(slice) for some valid locations loc, slice
CallSubInSlice ==
    /\ op = "init"
    /\ \E loc \in ValidLocations, slice \in ValidLocations :
        /\ op' = "SubInSlice"
        /\ args' = [loc |-> loc, slice |-> slice]
        /\ ret' = SubInSlice(loc, slice)
    /\ UNCHANGED <<NodeLocation, calls>>

\* loc.InSameSliceAs(cmp), cmp.InSameSliceAs(loc), loc.InSameSliceAs(loc) and
\* loc.CommonDom(cmp) for some valid locations loc, cmp
CallInSameSliceAs ==
    /\ op = "init"
    /\ \E loc \in ValidLocations, cmp \in ValidLocations :
        /\ op' = "InSameSliceAs"
        /\ args' = [loc |-> loc, cmp |-> cmp]
        /\ ret' = [same |-> InSameSliceAs(loc, cmp),
                   reverse |-> InSameSliceAs(cmp, loc),
                   self |-> InSameSliceAs(loc, loc),
                   common |-> CommonDom(loc, cmp)]
    /\ UNCHANGED <<NodeLocation, calls>>

NextLoc == CallAddressLocation \/ CallSubInSlice \/ CallInSameSliceAs

SpecLoc == InitLoc /\ [][NextLoc]_vars

(***************************************************************************)
(* Properties of the address-to-shard binding and of SubInSlice.           *)
(***************************************************************************)

\* The registered range of location l contains the first byte of a.
InRegisteredRange(l, a) ==
    /\ a[1] >= locationToPrefixRange[Name(l)].lo
    /\ a[1] <= locationToPrefixRange[Name(l)].hi

LeafLocations == { l \in ValidLocations : Len(l) = ZONE_CTX }

\* C8: whatever the self location, Location() of the zero address is the top
\* location, and for every leaf location L and address whose first byte lies
\* in L's registered inclusive range, Location() is exactly L and
\* L.ContainsAddress(addr) is true.
C8_ZeroAndLeafResolve ==
    op = "Location" =>
        /\ (args.addr = ZeroAddr => ret = PtrTo(<< >>))
        /\ \A L \in LeafLocations :
              InRegisteredRange(L, args.addr) =>
                  /\ ret = PtrTo(L)
                  /\ ContainsAddress(L, args.addr)

\* C8 witness: a node in zone [2,1] resolves an address of zone [0,0]
\* (an out-of-slice leaf, found on a later region pass).
C8_Witness ==
    /\ op = "Location"
    /\ NodeLocation = <<2, 1>>
    /\ args.addr[1] = 25
    /\ ret = PtrTo(<<0, 0>>)

\* C9 (as claimed): Location() returns only a leaf location, the top location
\* or nil; the top location only for the zero address, never a mid-tier
\* location, and for a non-zero address the unique leaf whose range contains
\* the first byte, or nil when no leaf range contains it.
C9_OnlyLeafTopOrNil ==
    op = "Location" =>
        LET leaves == { L \in LeafLocations : InRegisteredRange(L, args.addr) }
        IN  /\ ret.isNil \/ Len(ret.loc) \in {PRIME_CTX, ZONE_CTX}
            /\ (ret = PtrTo(<< >>) => args.addr = ZeroAddr)
            /\ (args.addr # ZeroAddr =>
                   IF leaves = {} THEN ret = NilLocation
                   ELSE \E L \in leaves : leaves = {L} /\ ret = PtrTo(L))

\* C9 (amended): Location() returns the unique location of any tier (top, mid
\* or leaf) whose registered range contains the address's first byte, and nil
\* exactly when no registered range contains it (first byte above 129); the
\* top location is returned exactly for first bytes 0..9 (the zero address
\* among them).
C9_UniqueRegisteredOwner ==
    op = "Location" =>
        LET owners == { l \in ValidLocations : InRegisteredRange(l, args.addr) }
        IN  /\ Cardinality(owners) <= 1
            /\ IF owners = {} THEN ret = NilLocation
               ELSE \E l \in owners : ret = PtrTo(l)
            /\ (ret = NilLocation <=> args.addr[1] > 129)
            /\ (ret = PtrTo(<< >>) <=> args.addr[1] \in 0..9)

\* C9 witness: a non-zero address with first byte 15 resolves to the mid-tier
\* location [0].
C9_Witness ==
    /\ op = "Location"
    /\ args.addr[1] = 15
    /\ args.addr # ZeroAddr
    /\ ret = PtrTo(<<0>>)

\* C10 (as claimed): SubInSlice(loc, slice) returns a non-empty location iff
\* slice is longer than loc and loc is a coordinate-wise prefix of slice; a
\* returned location has length len(loc)+1, starts with loc and ends with
\* slice[len(loc)].
C10_SubInSliceIffStrictExtension ==
    op = "SubInSlice" =>
        LET loc == args.loc
            slice == args.slice
            extends == /\ Len(slice) > Len(loc)
                       /\ \A i \in 1..Len(loc) : slice[i] = loc[i]
        IN  /\ (ret # << >>) <=> extends
            /\ (ret # << >>) =>
                  /\ Len(ret) = Len(loc) + 1
                  /\ SubSeq(ret, 1, Len(loc)) = loc
                  /\ ret[Len(ret)] = slice[Len(loc) + 1]

\* a is a coordinate-wise prefix of b (a = b included).
IsPrefixOf(a, b) ==
    /\ Len(a) <= Len(b)
    /\ \A i \in 1..Len(a) : a[i] = b[i]

\* C11: for all valid locations a, b: InSameSliceAs(a, a) is true;
\* InSameSliceAs(a, b) = InSameSliceAs(b, a); InSameSliceAs(a, b) is true
\* exactly when one of a, b is a coordinate-wise prefix of the other, which is
\* exactly when CommonDom(a, b) equals the shorter of the two (CommonDom is
\* never longer than the shorter).  The top location is in the same slice as
\* every location, and two distinct locations of equal length never are.
C11_SameSliceIffPrefix ==
    op = "InSameSliceAs" =>
        LET a == args.loc
            b == args.cmp
            shorter == IF Len(a) <= Len(b) THEN a ELSE b
            onePrefixesOther == IsPrefixOf(a, b) \/ IsPrefixOf(b, a)
        IN  /\ ret.self
            /\ ret.same = ret.reverse
            /\ ret.same <=> onePrefixesOther
            /\ onePrefixesOther <=> (ret.common = shorter)
            /\ Len(ret.common) <= Len(shorter)
            /\ (a = << >> \/ b = << >>) => ret.same
            /\ (Len(a) = Len(b) /\ a # b) => ~ret.same

\* C11 witness: a zone compared with its own region (the longer one is the
\* receiver, so the swap is taken), and their common dominant is the region.
C11_Witness ==
    /\ op = "InSameSliceAs"
    /\ args.loc = <<1, 2>>
    /\ args.cmp = <<1>>
    /\ ret.same
    /\ ret.reverse
    /\ ret.common = <<1>>

\* The probes of the top location among the calls of a Location() call.
PrimeProbes == { i \in 1..Len(calls) : calls[i][2] = << >> }

\* Location() returns the same for the call's address whatever the self
\* location, and the self location only orders the candidates: the search
\* order of the node is a permutation of the 13 valid locations, the call
\* probes no location twice, and a call that finds no owner probed all 13.
SelfOnlyOrdersProbes ==
    /\ \A self \in ValidLocations : AddressLocation(args.addr, self) = ret
    /\ Len(ProbeOrder(NodeLocation)) = Cardinality(ValidLocations)
    /\ { ProbeOrder(NodeLocation)[i] : i \in 1..Len(ProbeOrder(NodeLocation)) }
          = ValidLocations
    /\ \A i \in 1..Len(calls) :
          /\ calls[i][1] = "ContainsAddress"
          /\ calls[i][2] \in ValidLocations
          /\ \A j \in 1..Len(calls) : calls[j][2] = calls[i][2] => j = i
    /\ (ret = NilLocation => Len(calls) = Cardinality(ValidLocations))

\* The region the search of the node starts with: its own region, region 0
\* for a node at the top location.
FirstPassRegion == IF Len(NodeLocation) >= 1 THEN NodeLocation[1] ELSE 0

\* The address of the call is owned by the first-pass region or by one of its
\* zones.
OwnedInFirstPassRegion ==
    \E l \in ValidLocations :
        /\ Len(l) >= 1
        /\ l[1] = FirstPassRegion
        /\ InRegisteredRange(l, args.addr)

\* C14 (as claimed): the result of Location() does not depend on the self
\* location (same location, or nil, for every two of the 13 self locations);
\* the self location changes only the order in which candidates are probed,
\* and the top location is probed exactly once per call.
C14_SelfIndependentTopOnce ==
    op = "Location" =>
        /\ SelfOnlyOrdersProbes
        /\ Cardinality(PrimeProbes) = 1

\* C14 (amended): the result of Location() does not depend on the self
\* location and the self location changes only the order in which candidates
\* are probed; the top location is probed at most once per call: not at all
\* when the address is owned by the first-pass region or one of its zones
\* (the search returns before it reaches the top location), exactly once
\* otherwise.
C14_SelfIndependentTopAtMostOnce ==
    op = "Location" =>
        /\ SelfOnlyOrdersProbes
        /\ Cardinality(PrimeProbes) <= 1
        /\ (PrimeProbes = {} <=> OwnedInFirstPassRegion)

\* C14 witness: a node in zone [1,2] resolves an address of zone [1,0] of its
\* own region on the second probe; the top location is not probed.
C14_Witness ==
    /\ op = "Location"
    /\ NodeLocation = <<1, 2>>
    /\ args.addr[1] = 65
    /\ ret = PtrTo(<<1, 0>>)
    /\ Len(calls) = 2
    /\ PrimeProbes = {}

(***************************************************************************)
(* uint64 arithmetic.  A uint64 is four base-65536 limbs, most significant *)
(* first, so that wrap-around at 2^64 is exact.                            *)
(***************************************************************************)
LimbBase == 256 * 256

\* The uint64 of a number below 2^31.
U64(n) == << 0, 0, n \div LimbBase, n % LimbBase >>

MaxUint64 == << LimbBase - 1, LimbBase - 1, LimbBase - 1, LimbBase - 1 >>

\* a < b on uint64
U64Less(a, b) ==
    \E i \in 1..4 : a[i] < b[i] /\ \A j \in 1..(i - 1) : a[j] = b[j]

\* a + b on uint64 (the carry out of the top limb is dropped)
U64Add(a, b) ==
    LET s4 == a[4] + b[4]
        s3 == a[3] + b[3] + (s4 \div LimbBase)
        s2 == a[2] + b[2] + (s3 \div LimbBase)
        s1 == a[1] + b[1] + (s2 \div LimbBase)
    IN  << s1 % LimbBase, s2 % LimbBase, s3 % LimbBase, s4 % LimbBase >>

\* a - b on uint64 (the borrow out of the top limb is dropped)
U64Sub(a, b) ==
    LET d4 == a[4] - b[4]
        d3 == a[3] - b[3] - (IF d4 < 0 THEN 1 ELSE 0)
        d2 == a[2] - b[2] - (IF d3 < 0 THEN 1 ELSE 0)
        d1 == a[1] - b[1] - (IF d2 < 0 THEN 1 ELSE 0)
    IN  << d1 % LimbBase, d2 % LimbBase, d3 % LimbBase, d4 % LimbBase >>

\* a / d on uint64, for a divisor 0 < d < 2^15 (long division)
U64Div(a, d) ==
    LET c1 == a[1]
        c2 == (c1 % d) * LimbBase + a[2]
        c3 == (c2 % d) * LimbBase + a[3]
        c4 == (c3 % d) * LimbBase + a[4]
    IN  << c1 \div d, c2 \div d, c3 \div d, c4 \div d >>

(***************************************************************************)
(* Gas limit adjustment.                                                   *)
(***************************************************************************)

\* params.GasLimitBoundDivisor and params.MinGasLimit.  The params package is
\* not among the sources: the divisor is the documented 1024, the minimum is
\* taken as go-ethereum's 5000.  The inputs below include limits under and
\* over both.
GasLimitBoundDivisor == 1024
MinGasLimit == 5000

\* func CalcGasLimit(parentGasLimit, desiredLimit uint64) uint64
CalcGasLimit(parentGasLimit, desiredLimit) ==
    LET delta == U64Sub(U64Div(parentGasLimit, GasLimitBoundDivisor), U64(1))
        limit == parentGasLimit
        desired == IF U64Less(desiredLimit, U64(MinGasLimit))
                   THEN U64(MinGasLimit) ELSE desiredLimit
    IN  IF U64Less(limit, desired)
        THEN LET up == U64Add(parentGasLimit, delta)
             IN  IF U64Less(desired, up) THEN desired ELSE up
        ELSE IF U64Less(desired, limit)
             THEN LET down == U64Sub(parentGasLimit, delta)
                  IN  IF U64Less(down, desired) THEN desired ELSE down
             ELSE limit

\* Gas limits the model starts from and aims at: the values around the
\* divisor, around the minimum, the documented example, and the top of the
\* uint64 range.
ParentLimits ==
    { U64(n) : n \in {0, 1, 2, 3, 1000, 1023, 1024, 1025, 1500, 2047, 2048, 2049,
                      3000, 4999, 5000, 5001, 6000, 1000000, 2000000} }
        \cup { MaxUint64, U64Sub(MaxUint64, U64(1)) }
DesiredLimits ==
    { U64(n) : n \in {0, 4999, 5000, 5001, 6000, 2000000} } \cup { MaxUint64 }

InitGas ==
    /\ NodeLocation = << >>
    /\ op = "init"
    /\ args = << >>
    /\ ret = << >>
    /\ calls = << >>

\* CalcGasLimit(parentGasLimit, desiredLimit) for the first block
CallCalcGasLimit ==
    /\ op = "init"
    /\ \E p \in ParentLimits, d \in DesiredLimits :
        /\ op' = "CalcGasLimit"
        /\ args' = [parentGasLimit |-> p, desiredLimit |-> d, block |-> 1]
        /\ ret' = CalcGasLimit(p, d)
    /\ UNCHANGED <<NodeLocation, calls>>

\* The next block: its parent's limit is the limit just computed, the desired
\* limit stays.  block counts the blocks of the chain, capped at MaxBlocks.
NextBlockGasLimit ==
    /\ op = "CalcGasLimit"
    /\ args.block < MaxBlocks
    /\ op' = op
    /\ args' = [parentGasLimit |-> ret, desiredLimit |-> args.desiredLimit,
                block |-> args.block + 1]
    /\ ret' = CalcGasLimit(ret, args.desiredLimit)
    /\ UNCHANGED <<NodeLocation, calls>>

NextGas == CallCalcGasLimit \/ NextBlockGasLimit

SpecGas == InitGas /\ [][NextGas]_vars

\* a <= b on uint64
U64Leq(a, b) == ~U64Less(b, a)

\* max(desiredLimit, MinGasLimit)
GasTarget(desiredLimit) ==
    IF U64Less(desiredLimit, U64(MinGasLimit)) THEN U64(MinGasLimit) ELSE desiredLimit

\* C5: CalcGasLimit moves toward target = max(desired, MinGasLimit) and never
\* past it: below the target parent <= next <= target, above it
\* target <= next <= parent, at it next = parent; and
\* CalcGasLimit(1000000, 2000000) = 1000000 + (1000000/1024 - 1).
C5_TowardTargetNeverPast ==
    op = "CalcGasLimit" =>
        LET parent == args.parentGasLimit
            target == GasTarget(args.desiredLimit)
        IN  /\ U64Less(parent, target) => U64Leq(parent, ret) /\ U64Leq(ret, target)
            /\ U64Less(target, parent) => U64Leq(target, ret) /\ U64Leq(ret, parent)
            /\ parent = target => ret = parent
            /\ (parent = U64(1000000) /\ args.desiredLimit = U64(2000000)) =>
                   ret = U64(1000000 + ((1000000 \div 1024) - 1))

\* C6: for every parent limit and every desired limit >= MinGasLimit the
\* result is >= MinGasLimit.
C6_NeverBelowMin ==
    (op = "CalcGasLimit" /\ U64Leq(U64(MinGasLimit), args.desiredLimit)) =>
        U64Leq(U64(MinGasLimit), ret)

\* C7: iterating CalcGasLimit with a fixed desired limit converges
\* monotonically: every step from a limit other than the target ends strictly
\* closer to the target on the same side (or at it), so the sequence never
\* stalls short of the target, never moves away and never crosses it; a step
\* from the target stays at the target.
C7_StepConverges ==
    op = "CalcGasLimit" =>
        LET parent == args.parentGasLimit
            target == GasTarget(args.desiredLimit)
        IN  /\ U64Less(parent, target) => U64Less(parent, ret) /\ U64Leq(ret, target)
            /\ U64Less(target, parent) => U64Less(ret, parent) /\ U64Leq(target, ret)
            /\ parent = target => ret = target

(***************************************************************************)
(* Root digests.  A digest is a deterministic, order-sensitive,            *)
(* collision-free function of the list it is derived from; the digest of   *)
(* the empty list is the sentinel EmptyRootHash.                           *)
(***************************************************************************)

\* types.DeriveSha(list, hasher)
DeriveSha(list) == [root |-> list]

\* types.EmptyRootHash
EmptyRootHash == DeriveSha(<< >>)

\* types.CalcUncleHash(uncles)
CalcUncleHash(uncles) == [uncles |-> uncles]

\* All sequences over items of length at most n.
SeqsUpTo(items, n) == UNION { [1..k -> items] : k \in 0..n }

(***************************************************************************)
(* Block body validation.                                                  *)
(***************************************************************************)

\* v.hc.bc.processor.HasBlockAndState(hash, number): the oracle db holds the
\* set of (hash, number) keys that have header and state.
HasBlockAndState(db, hash, number) == <<hash, number>> \in db.withState

\* v.hc.bc.HasBlock(hash, number): the keys whose header is known.
HasBlock(db, hash, number) == <<hash, number>> \in db.headers

\* A bug the sub-manifest check could have: the sentinel test is left out.
BadSubManifestNoSentinel(block, nodeCtx) ==
    /\ nodeCtx < ZONE_CTX
    /\ DeriveSha(block.subManifest) # block.header.manifestHash[nodeCtx + 1]

\* ValidateBody, the sub-manifest step: TRUE when ErrBadSubManifest is
\* returned.  header.ManifestHash(i) is manifestHash[i], i in 0..2.
BadSubManifest(block, nodeCtx) ==
    /\ nodeCtx < ZONE_CTX
    /\ LET subManifestHash == DeriveSha(block.subManifest)
       IN  \/ subManifestHash = EmptyRootHash
           \/ subManifestHash # block.header.manifestHash[nodeCtx + 1]

\* A bug the ancestor step could have: the two errors exchanged.
AncestorCheckSwapped(block, db) ==
    IF ~HasBlockAndState(db, block.header.parentHash, block.header.number - 1)
    THEN IF ~HasBlock(db, block.header.parentHash, block.header.number - 1)
         THEN "ErrPrunedAncestor"
         ELSE "ErrUnknownAncestor"
    ELSE "nil"

\* ValidateBody, the ancestor step and the final return.
AncestorCheck(block, db) ==
    IF ~HasBlockAndState(db, block.header.parentHash, block.header.number - 1)
    THEN IF ~HasBlock(db, block.header.parentHash, block.header.number - 1)
         THEN "ErrUnknownAncestor"
         ELSE "ErrPrunedAncestor"
    ELSE "nil"

\* A bug ValidateBody could have: the ancestor step taken before the root and
\* sub-manifest steps.
ValidateBodyAncestorFirst(block, self, db, verifyUncles) ==
    LET nodeCtx == Context(self)
        header == block.header
    IN  IF HasBlockAndState(db, block.hash, header.number)
        THEN "ErrKnownBlock"
        ELSE IF verifyUncles # "nil"
        THEN verifyUncles
        ELSE IF AncestorCheck(block, db) # "nil"
        THEN AncestorCheck(block, db)
        ELSE IF CalcUncleHash(block.uncles) # header.uncleHash
        THEN "uncle root hash mismatch"
        ELSE IF DeriveSha(block.transactions) # header.txHash
        THEN "transaction root hash mismatch"
        ELSE IF DeriveSha(block.extTransactions) # header.etxHash
        THEN "external transaction root hash mismatch"
        ELSE IF BadSubManifest(block, nodeCtx)
        THEN "ErrBadSubManifest"
        ELSE "nil"

\* func (v *BlockValidator) ValidateBody(block *types.Block) error
\* self is common.NodeLocation, db the availability oracle, verifyUncles the
\* result of v.engine.VerifyUncles(v.hc, block).  The result is "nil" or the
\* error returned.
ValidateBody(block, self, db, verifyUncles) ==
    LET nodeCtx == Context(self)
        header == block.header
    IN  IF HasBlockAndState(db, block.hash, header.number)
        THEN "ErrKnownBlock"
        ELSE IF verifyUncles # "nil"
        THEN verifyUncles
        ELSE IF CalcUncleHash(block.uncles) # header.uncleHash
        THEN "uncle root hash mismatch"
        ELSE IF DeriveSha(block.transactions) # header.txHash
        THEN "transaction root hash mismatch"
        ELSE IF DeriveSha(block.extTransactions) # header.etxHash
        THEN "external transaction root hash mismatch"
        ELSE IF BadSubManifest(block, nodeCtx)
        THEN "ErrBadSubManifest"
        ELSE AncestorCheck(block, db)

\* The collaborator calls of ValidateBody in order: the oracle for the block,
\* the engine, and, once the root and sub-manifest steps passed, the oracle
\* for the parent (HasBlock only when the parent has no state).
ValidateBodyCalls(block, self, db, verifyUncles) ==
    LET header == block.header
        forBlock == << <<"HasBlockAndState", block.hash, header.number>> >>
        engine == << <<"VerifyUncles">> >>
        forParent == << <<"HasBlockAndState", header.parentHash, header.number - 1>> >>
        forHeader == << <<"HasBlock", header.parentHash, header.number - 1>> >>
    IN  IF HasBlockAndState(db, block.hash, header.number)
        THEN forBlock
        ELSE IF verifyUncles # "nil"
                \/ CalcUncleHash(block.uncles) # header.uncleHash
                \/ DeriveSha(block.transactions) # header.txHash
                \/ DeriveSha(block.extTransactions) # header.etxHash
                \/ BadSubManifest(block, Context(self))
        THEN forBlock \o engine
        ELSE IF HasBlockAndState(db, header.parentHash, header.number - 1)
        THEN forBlock \o engine \o forParent
        ELSE forBlock \o engine \o forParent \o forHeader

\* The blocks and oracles the model draws.  Body lists of uncles and
\* transactions are empty or hold one item and the header declares the root
\* of one of those lists; the sub-manifest is any list of at most
\* MaxManifest digests; each manifest slot of the header holds the sentinel,
\* the root of a one-digest list, or the root of a two-digest list.
ShortLists == { << >>, <<1>> }
ManifestLists == SeqsUpTo({1, 2}, MaxManifest)
ManifestRoots == { EmptyRootHash, DeriveSha(<<1>>), DeriveSha(<<1, 2>>) }
BlockKey == <<"B", 7>>
ParentKey == <<"P", BlockKey[2] - 1>>

InitBody ==
    /\ NodeLocation \in ValidLocations
    /\ op = "init"
    /\ args = << >>
    /\ ret = << >>
    /\ calls = << >>

\* v.ValidateBody(block) for some block, oracle and engine answer
CallValidateBody ==
    /\ op = "init"
    /\ \E uncles \in ShortLists, uncleDecl \in ShortLists,
          txs \in ShortLists, txDecl \in ShortLists,
          etxs \in ShortLists, etxDecl \in ShortLists,
          subManifest \in ManifestLists,
          m0 \in {EmptyRootHash, DeriveSha(<<1>>)},
          m1 \in ManifestRoots, m2 \in ManifestRoots,
          withState \in SUBSET {BlockKey, ParentKey},
          headers \in SUBSET {ParentKey},
          verifyUncles \in {"nil", "ErrInvalidUncle"} :
        LET header == [ parentHash |-> ParentKey[1], number |-> BlockKey[2],
                        uncleHash |-> CalcUncleHash(uncleDecl),
                        txHash |-> DeriveSha(txDecl),
                        etxHash |-> DeriveSha(etxDecl),
                        manifestHash |-> [i \in 0..(HierarchyDepth - 1) |->
                            IF i = PRIME_CTX THEN m0
                            ELSE IF i = REGION_CTX THEN m1 ELSE m2] ]
            block == [ hash |-> BlockKey[1], header |-> header, uncles |-> uncles,
                       transactions |-> txs, extTransactions |-> etxs,
                       subManifest |-> subManifest ]
            db == [ withState |-> withState, headers |-> headers ]
        IN  /\ op' = "ValidateBody"
            /\ args' = [block |-> block, db |-> db, verifyUncles |-> verifyUncles]
            /\ ret' = ValidateBody(block, NodeLocation, db, verifyUncles)
            /\ calls' = ValidateBodyCalls(block, NodeLocation, db, verifyUncles)
    /\ UNCHANGED NodeLocation

NextBody == CallValidateBody

SpecBody == InitBody /\ [][NextBody]_vars

(***************************************************************************)
(* Properties of ValidateBody.                                             *)
(***************************************************************************)

\* The block of a ValidateBody call is not already known, the engine accepts
\* its uncles, and its uncle, transaction and external transaction roots are
\* the ones its header declares.
PassesRootChecks ==
    /\ <<args.block.hash, args.block.header.number>> \notin args.db.withState
    /\ args.verifyUncles = "nil"
    /\ CalcUncleHash(args.block.uncles) = args.block.header.uncleHash
    /\ DeriveSha(args.block.transactions) = args.block.header.txHash
    /\ DeriveSha(args.block.extTransactions) = args.block.header.etxHash

\* The header's manifest-root slot for the tier right below the node's own.
SubordinateSlot == args.block.header.manifestHash[Len(NodeLocation) + 1]

\* The sub-manifest condition, from the call's inputs.
SubManifestRejected ==
    \/ DeriveSha(args.block.subManifest) = EmptyRootHash
    \/ DeriveSha(args.block.subManifest) # SubordinateSlot

\* C1: on a non-leaf node (self location of length 0 or 1) a block that
\* passes the earlier checks gets ErrBadSubManifest exactly when the root of
\* its sub-manifest list is the empty-list sentinel or differs from the
\* header's slot for tier self+1; an empty sub-manifest list, or a slot
\* holding the sentinel, always gives ErrBadSubManifest.  On a leaf node the
\* result is never ErrBadSubManifest.
C1_BadSubManifest ==
    op = "ValidateBody" =>
        /\ (Len(NodeLocation) < ZONE_CTX /\ PassesRootChecks) =>
              /\ (ret = "ErrBadSubManifest" <=> SubManifestRejected)
              /\ (args.block.subManifest = << >> => ret = "ErrBadSubManifest")
              /\ (SubordinateSlot = EmptyRootHash => ret = "ErrBadSubManifest")
        /\ (Len(NodeLocation) = ZONE_CTX => ret # "ErrBadSubManifest")

\* C1 witness: a mid-tier node, a block passing the earlier checks whose
\* sub-manifest is non-empty while the header's slot 2 holds the sentinel,
\* rejected with ErrBadSubManifest.
C1_Witness ==
    /\ op = "ValidateBody"
    /\ Len(NodeLocation) = REGION_CTX
    /\ PassesRootChecks
    /\ args.block.subManifest = <<1, 2>>
    /\ args.block.header.manifestHash[ZONE_CTX] = EmptyRootHash
    /\ ret = "ErrBadSubManifest"

\* The block of a ValidateBody call passes every check before the ancestor
\* check.
PassesBeforeAncestor ==
    /\ PassesRootChecks
    /\ (Len(NodeLocation) < ZONE_CTX => ~SubManifestRejected)

\* The parent (parent digest, number-1) has header and state / has a header.
ParentProcessed ==
    <<args.block.header.parentHash, args.block.header.number - 1>> \in args.db.withState
ParentHeaderKnown ==
    <<args.block.header.parentHash, args.block.header.number - 1>> \in args.db.headers

\* C2: for a block that passes every earlier check the oracle alone decides:
\* parent with header and state -> success; parent without, header unknown ->
\* ErrUnknownAncestor; parent without, header known -> ErrPrunedAncestor.
\* ValidateBody never succeeds for a block whose parent is not fully
\* processed.
C2_AncestorCheck ==
    op = "ValidateBody" =>
        /\ PassesBeforeAncestor =>
              /\ (ParentProcessed => ret = "nil")
              /\ (~ParentProcessed /\ ~ParentHeaderKnown => ret = "ErrUnknownAncestor")
              /\ (~ParentProcessed /\ ParentHeaderKnown => ret = "ErrPrunedAncestor")
        /\ (ret = "nil" => ParentProcessed)

\* C2 witness: a top-tier node, a block passing every earlier check whose
\* parent header is known but whose parent state is gone: ErrPrunedAncestor.
C2_Witness ==
    /\ op = "ValidateBody"
    /\ NodeLocation = << >>
    /\ PassesBeforeAncestor
    /\ ~ParentProcessed
    /\ ParentHeaderKnown
    /\ ret = "ErrPrunedAncestor"

\* The seven steps of ValidateBody in their order, each read from the call's
\* inputs: whether the step fails and the error it then gives.
BodySteps ==
    LET block == args.block
        header == block.header
    IN  << [ fails |-> <<block.hash, header.number>> \in args.db.withState,
             err |-> "ErrKnownBlock" ],
           [ fails |-> args.verifyUncles # "nil",
             err |-> args.verifyUncles ],
           [ fails |-> CalcUncleHash(block.uncles) # header.uncleHash,
             err |-> "uncle root hash mismatch" ],
           [ fails |-> DeriveSha(block.transactions) # header.txHash,
             err |-> "transaction root hash mismatch" ],
           [ fails |-> DeriveSha(block.extTransactions) # header.etxHash,
             err |-> "external transaction root hash mismatch" ],
           [ fails |-> Len(NodeLocation) < ZONE_CTX /\ SubManifestRejected,
             err |-> "ErrBadSubManifest" ],
           [ fails |-> ~ParentProcessed,
             err |-> IF ParentHeaderKnown THEN "ErrPrunedAncestor"
                     ELSE "ErrUnknownAncestor" ] >>

BodyFailing == { i \in 1..Len(BodySteps) : BodySteps[i].fails }

\* C12: ValidateBody returns the outcome of the first failing step in the
\* order known block, engine uncle error (returned unchanged), uncle root,
\* transaction root, external transaction root, sub-manifest (non-leaf
\* only), ancestor; it succeeds iff none of the seven fails.  An already
\* known block gives ErrKnownBlock whatever else fails, and a block with a
\* bad root and a missing parent gives the root mismatch, not the ancestor
\* error.
C12_FirstFailingBodyStep ==
    op = "ValidateBody" =>
        LET steps == BodySteps
            failing == { i \in 1..Len(steps) : steps[i].fails }
        IN  /\ (ret = "nil" <=> failing = {})
            /\ \A i \in failing :
                  (\A j \in failing : i <= j) => ret = steps[i].err
            /\ (1 \in failing => ret = "ErrKnownBlock")
            /\ (/\ failing \cap {1, 2} = {}
                /\ failing \cap {3, 4, 5} # {}
                /\ 7 \in failing)
                  => ret \in { "uncle root hash mismatch",
                               "transaction root hash mismatch",
                               "external transaction root hash mismatch" }

\* C12 witness: a top-tier node and a block not yet known whose uncles the
\* engine accepts, with a wrong transaction root, a rejected sub-manifest and
\* an unknown parent: the transaction root mismatch is reported.
C12_Witness ==
    /\ op = "ValidateBody"
    /\ NodeLocation = << >>
    /\ BodyFailing = {4, 6, 7}
    /\ ~ParentHeaderKnown
    /\ ret = "transaction root hash mismatch"

(***************************************************************************)
(* Post-execution state validation.                                        *)
(***************************************************************************)

\* types.ReceiptStatusFailed, types.ReceiptStatusSuccessful
ReceiptStatusFailed == 0
ReceiptStatusSuccessful == 1

\* types.CreateBloom(receipts): a deterministic function of the receipts
CreateBloom(receipts) == [bloomOf |-> receipts]

\* A bug the emission loop could have: the status test is left out.
RECURSIVE EmittedEtxsAnyStatus(_)
EmittedEtxsAnyStatus(receipts) ==
    IF receipts = << >> THEN << >>
    ELSE Head(receipts).Etxs \o EmittedEtxsAnyStatus(Tail(receipts))

\* ValidateState, the loop collecting emittedEtxs: over the receipts in
\* order, the Etxs of each receipt whose Status is ReceiptStatusSuccessful.
RECURSIVE EmittedEtxs(_)
EmittedEtxs(receipts) ==
    IF receipts = << >> THEN << >>
    ELSE (IF Head(receipts).Status = ReceiptStatusSuccessful
          THEN Head(receipts).Etxs ELSE << >>)
         \o EmittedEtxs(Tail(receipts))

\* A bug the rollup step could have: the rollup root is compared with the
\* header's EtxHash instead of its EtxRollupHash.
RollupCheckAgainstEtxHash(header, collected) ==
    IF collected.err # "nil"
    THEN "unable to get ETX rollup"
    ELSE IF DeriveSha(collected.etxRollup) # header.etxHash
    THEN "invalid etx rollup hash"
    ELSE "nil"

\* ValidateState, the rollup step and the final return.  collected is what
\* v.hc.CollectEtxRollup(block) returned: (etxRollup, err).
RollupCheck(header, collected) ==
    IF collected.err # "nil"
    THEN "unable to get ETX rollup"
    ELSE IF DeriveSha(collected.etxRollup) # header.etxRollupHash
    THEN "invalid etx rollup hash"
    ELSE "nil"

\* A bug the state root step could have: the roots are compared before the
\* store error is looked at.
ValidateStateRootBeforeErr(block, statedb, receipts, usedGas, collected) ==
    LET header == block.header
    IN  IF header.gasUsed # usedGas
        THEN "invalid gas used"
        ELSE IF CreateBloom(receipts) # header.bloom
        THEN "invalid bloom"
        ELSE IF DeriveSha(receipts) # header.receiptHash
        THEN "invalid receipt root hash"
        ELSE IF header.root # statedb.root
        THEN "invalid merkle root"
        ELSE IF statedb.err # "nil"
        THEN statedb.err
        ELSE IF DeriveSha(EmittedEtxs(receipts)) # header.etxHash
        THEN "invalid etx hash"
        ELSE RollupCheck(header, collected)

\* The collaborator calls of ValidateState in order: the state store for the
\* post-state root once the gas, bloom and receipt root checks passed, the
\* history for the rollup once the state root and emission checks passed too.
ValidateStateCalls(block, statedb, receipts, usedGas) ==
    LET header == block.header
    IN  IF \/ header.gasUsed # usedGas
           \/ CreateBloom(receipts) # header.bloom
           \/ DeriveSha(receipts) # header.receiptHash
        THEN << >>
        ELSE IF \/ header.root # statedb.root \/ statedb.err # "nil"
                \/ DeriveSha(EmittedEtxs(receipts)) # header.etxHash
        THEN << <<"IntermediateRoot">> >>
        ELSE << <<"IntermediateRoot">>, <<"CollectEtxRollup">> >>

\* func (v *BlockValidator) ValidateState(block, statedb, receipts, usedGas) error
\* statedb is what statedb.IntermediateRoot(...) returns: (root, err).
ValidateState(block, statedb, receipts, usedGas, collected) ==
    LET header == block.header
    IN  IF header.gasUsed # usedGas
        THEN "invalid gas used"
        ELSE IF CreateBloom(receipts) # header.bloom
        THEN "invalid bloom"
        ELSE IF DeriveSha(receipts) # header.receiptHash
        THEN "invalid receipt root hash"
        ELSE IF header.root # statedb.root \/ statedb.err # "nil"
        THEN (IF statedb.err # "nil" THEN statedb.err ELSE "invalid merkle root")
        ELSE IF DeriveSha(EmittedEtxs(receipts)) # header.etxHash
        THEN "invalid etx hash"
        ELSE RollupCheck(header, collected)

\* The external transactions of the first n receipts, those of successful
\* receipts only / those of every receipt, in receipt order.
RECURSIVE EmissionsOfSuccessful(_, _)
EmissionsOfSuccessful(receipts, n) ==
    IF n = 0 THEN << >>
    ELSE EmissionsOfSuccessful(receipts, n - 1)
         \o (IF receipts[n].Status = 1 THEN receipts[n].Etxs ELSE << >>)

RECURSIVE EmissionsOfAll(_, _)
EmissionsOfAll(receipts, n) ==
    IF n = 0 THEN << >>
    ELSE EmissionsOfAll(receipts, n - 1) \o receipts[n].Etxs

\* The inputs the model draws.  A receipt is failed or successful and emits
\* none, one or two distinct external transactions; there are at most
\* MaxReceipts receipts.  The rollup collected from history is empty or holds
\* one external transaction of an earlier block, or the collection fails.
\* BadReceiptRoot is a receipt root the header can declare and no drawn
\* receipt list has.
EtxLists == { << >>, <<1>>, <<2>>, <<1, 2>>, <<2, 1>> }
Receipts == [ Status : {ReceiptStatusFailed, ReceiptStatusSuccessful}, Etxs : EtxLists ]
ReceiptLists == SeqsUpTo(Receipts, MaxReceipts)
RollupLists == { << >>, <<3>> }
BadReceiptRoot == DeriveSha(<< [Status |-> ReceiptStatusFailed, Etxs |-> <<0>>] >>)

InitState ==
    /\ NodeLocation \in {<< >>, <<0>>, <<0, 0>>}
    /\ op = "init"
    /\ args = << >>
    /\ ret = << >>
    /\ calls = << >>

\* v.ValidateState(block, statedb, receipts, usedGas) for some block,
\* execution result and history
CallValidateState ==
    /\ op = "init"
    /\ \E receipts \in ReceiptLists,
          gasUsed \in {21000, 42000},
          bloomOk \in BOOLEAN, receiptRootOk \in BOOLEAN,
          stateRoot \in {"rootA", "rootB"}, stateErr \in {"nil", "ErrStore"},
          rollup \in RollupLists, rollupErr \in {"nil", "ErrNoHistory"},
          rollupOwn \in BOOLEAN :
        \E etxDecl \in { EmissionsOfSuccessful(receipts, Len(receipts)),
                         EmissionsOfAll(receipts, Len(receipts)) },
           rollupDecl \in RollupLists :
            LET own == EmissionsOfSuccessful(receipts, Len(receipts))
                header == [ gasUsed |-> gasUsed,
                            bloom |-> IF bloomOk THEN CreateBloom(receipts)
                                      ELSE CreateBloom(<< >>),
                            receiptHash |-> IF receiptRootOk THEN DeriveSha(receipts)
                                            ELSE BadReceiptRoot,
                            root |-> "rootA",
                            etxHash |-> DeriveSha(etxDecl),
                            etxRollupHash |-> IF rollupOwn
                                              THEN DeriveSha(rollupDecl \o own)
                                              ELSE DeriveSha(rollupDecl) ]
                block == [ header |-> header ]
                statedb == [ root |-> stateRoot, err |-> stateErr ]
                collected == [ etxRollup |-> rollup, err |-> rollupErr ]
            IN  /\ op' = "ValidateState"
                /\ args' = [ block |-> block, statedb |-> statedb,
                             receipts |-> receipts, usedGas |-> 21000,
                             collected |-> collected ]
                /\ ret' = ValidateState(block, statedb, receipts, 21000, collected)
                /\ calls' = ValidateStateCalls(block, statedb, receipts, 21000)
    /\ UNCHANGED NodeLocation

NextState == CallValidateState

SpecState == InitState /\ [][NextState]_vars

(***************************************************************************)
(* Properties of ValidateState.                                            *)
(***************************************************************************)

\* The call's gas, bloom, receipt root and state root checks all pass.
PassesFirstFour ==
    /\ args.block.header.gasUsed = args.usedGas
    /\ args.block.header.bloom = CreateBloom(args.receipts)
    /\ args.block.header.receiptHash = DeriveSha(args.receipts)
    /\ args.statedb.err = "nil"
    /\ args.block.header.root = args.statedb.root

\* The external transactions of the call's successful receipts / of all its
\* receipts.
OwnEmissions == EmissionsOfSuccessful(args.receipts, Len(args.receipts))
AllEmissions == EmissionsOfAll(args.receipts, Len(args.receipts))

\* Some failed receipt of the call carries external transactions.
FailedReceiptEmits ==
    \E i \in 1..Len(args.receipts) :
        /\ args.receipts[i].Status = 0
        /\ args.receipts[i].Etxs # << >>

\* C3: the list whose root is compared with the header's EtxHash is the
\* concatenation, in receipt order and in each receipt's emission order, of
\* the external transactions of the successful receipts only; a block whose
\* header root is the root of the list that also includes a failed receipt's
\* non-empty emissions is rejected, with "invalid etx hash" when the four
\* earlier checks pass.
C3_EmissionsOfSuccessfulOnly ==
    op = "ValidateState" =>
        /\ PassesFirstFour =>
              (ret = "invalid etx hash" <=>
                  args.block.header.etxHash # DeriveSha(OwnEmissions))
        /\ (FailedReceiptEmits /\ args.block.header.etxHash = DeriveSha(AllEmissions)) =>
              /\ ret # "nil"
              /\ (PassesFirstFour => ret = "invalid etx hash")

\* C3 witness: a failed receipt emitting <<1>> before a successful one
\* emitting <<2, 1>>, a header declaring the root of <<1, 2, 1>>, the four
\* earlier checks passing: rejected with "invalid etx hash".
C3_Witness ==
    /\ op = "ValidateState"
    /\ PassesFirstFour
    /\ args.receipts = << [Status |-> 0, Etxs |-> <<1>>],
                          [Status |-> 1, Etxs |-> <<2, 1>>] >>
    /\ args.block.header.etxHash = DeriveSha(<<1, 2, 1>>)
    /\ ret = "invalid etx hash"

\* The call passes the first five checks and the history collaborator
\* returned a rollup.
ReachesRollupCheck ==
    /\ PassesFirstFour
    /\ args.block.header.etxHash = DeriveSha(OwnEmissions)
    /\ args.collected.err = "nil"

\* C4 (as claimed): the digest compared with the header's EtxRollupHash is
\* the root of the collaborator's rollup with the block's own emitted
\* external transactions appended; a header declaring the root of the
\* collaborator's rollup alone, for a block that emits at least one external
\* transaction, is rejected with "invalid etx rollup hash".
C4_RollupWithOwnEmissions ==
    (op = "ValidateState" /\ ReachesRollupCheck) =>
        /\ ret = "invalid etx rollup hash" <=>
              args.block.header.etxRollupHash
                  # DeriveSha(args.collected.etxRollup \o OwnEmissions)
        /\ (/\ OwnEmissions # << >>
            /\ args.block.header.etxRollupHash = DeriveSha(args.collected.etxRollup)) =>
              ret = "invalid etx rollup hash"

\* C4 (amended): the digest compared with the header's EtxRollupHash is the
\* root of the collaborator's rollup alone; the block's own emissions are not
\* appended.  A header declaring the root of the rollup alone passes, also
\* for a block that emits external transactions, and one declaring the root
\* of the rollup followed by the block's own non-empty emissions is rejected
\* with "invalid etx rollup hash".
C4_RollupAlone ==
    (op = "ValidateState" /\ ReachesRollupCheck) =>
        /\ ret = "invalid etx rollup hash" <=>
              args.block.header.etxRollupHash # DeriveSha(args.collected.etxRollup)
        /\ ret = "nil" <=>
              args.block.header.etxRollupHash = DeriveSha(args.collected.etxRollup)
        /\ (/\ OwnEmissions # << >>
            /\ args.block.header.etxRollupHash
                  = DeriveSha(args.collected.etxRollup \o OwnEmissions)) =>
              ret = "invalid etx rollup hash"

\* C4 witness: a block emitting <<2>>, history rollup <<3>>, a header
\* declaring the root of <<3>>: accepted.
C4_Witness ==
    /\ op = "ValidateState"
    /\ ReachesRollupCheck
    /\ OwnEmissions = <<2>>
    /\ args.collected.etxRollup = <<3>>
    /\ args.block.header.etxRollupHash = DeriveSha(<<3>>)
    /\ ret = "nil"

\* The steps of ValidateState in their order, each read from the call's
\* inputs: whether the step fails and the error it then gives.  The state
\* root check is two steps: the store failed (its error is the result), and
\* the store's root differs from the header's.  The rollup check is two
\* steps: the history failed, and the rollup's root differs from the
\* header's.
StateSteps ==
    LET header == args.block.header
    IN  << [ fails |-> header.gasUsed # args.usedGas,
             err |-> "invalid gas used" ],
           [ fails |-> header.bloom # CreateBloom(args.receipts),
             err |-> "invalid bloom" ],
           [ fails |-> header.receiptHash # DeriveSha(args.receipts),
             err |-> "invalid receipt root hash" ],
           [ fails |-> args.statedb.err # "nil",
             err |-> args.statedb.err ],
           [ fails |-> header.root # args.statedb.root,
             err |-> "invalid merkle root" ],
           [ fails |-> header.etxHash # DeriveSha(OwnEmissions),
             err |-> "invalid etx hash" ],
           [ fails |-> args.collected.err # "nil",
             err |-> "unable to get ETX rollup" ],
           [ fails |-> header.etxRollupHash # DeriveSha(args.collected.etxRollup),
             err |-> "invalid etx rollup hash" ] >>

StateFailing == { i \in 1..Len(StateSteps) : StateSteps[i].fails }

\* The calls to the history collaborator among the calls of the operation.
RollupCalls == { i \in 1..Len(calls) : calls[i][1] = "CollectEtxRollup" }

\* C13: ValidateState returns the outcome of the first failing step in the
\* order gas used, bloom, receipt root, state root (a store failure is
\* returned as it is whether or not the store's root equals the header's;
\* "invalid merkle root" only when the store succeeded and the roots differ),
\* emitted external transactions, rollup unavailable, rollup root; it
\* succeeds iff every check passes; the history collaborator is consulted
\* only after the five earlier checks have passed, and then once.
C13_FirstFailingStateStep ==
    op = "ValidateState" =>
        LET steps == StateSteps
            failing == { i \in 1..Len(steps) : steps[i].fails }
        IN  /\ (ret = "nil" <=> failing = {})
            /\ \A i \in failing :
                  (\A j \in failing : i <= j) => ret = steps[i].err
            /\ (failing \cap {1, 2, 3} = {} /\ 4 \in failing)
                  => ret = args.statedb.err
            /\ (ret = "invalid merkle root" =>
                   /\ args.statedb.err = "nil"
                   /\ args.block.header.root # args.statedb.root)
            /\ (RollupCalls # {} <=> failing \cap {1, 2, 3, 4, 5, 6} = {})
            /\ Cardinality(RollupCalls) <= 1
            /\ \A i \in RollupCalls : i = Len(calls)

\* C13 witness: the first three checks pass, the store fails although it
\* returned the header's root, and the emission and rollup checks would fail
\* too: the store's error is the result and the history is not consulted.
C13_Witness ==
    /\ op = "ValidateState"
    /\ StateFailing = {4, 6, 7, 8}
    /\ args.statedb.root = args.block.header.root
    /\ ret = "ErrStore"
    /\ RollupCalls = {}

====
